---- MODULE Spec2Model ----
(***************************************************************************)
(* gh-fork-sync: the sync orchestration of main.go.                        *)
(*                                                                         *)
(* Go strings are modelled as sequences of one-character strings, so that  *)
(* strings.HasPrefix, Contains, SplitN, TrimSuffix, TrimSpace and          *)
(* fmt.Sprintf are computed character by character.  The two non-ASCII     *)
(* runes of the program's messages are written "CHECK" (U+2713) and        *)
(* "CROSS" (U+2717); each is one element of its sequence.                  *)
(***************************************************************************)
EXTENDS Integers, Sequences, FiniteSets, TLC

VARIABLES
    pc,             \* position of main(): the statement about to run
    ret,            \* which return statement of main() ended the run
    flags,          \* os.Args: the flags given on the command line
    config,         \* *AppConfig returned by parseFlags
    originRemote,   \* URL of the local repository's remote "origin"
    upstreamRemote, \* URL of the local repository's remote "upstream"
    owner,          \* main's owner
    repoName,       \* main's repoName
    repoInfo,       \* main's repoInfo
    gitCalls,       \* every invocation of the git executable, in order
    apiCalls,       \* every request sent to the GitHub API, in order
    output,         \* every fmt.Print* call of the run, in order
    exitStatus      \* <<>> while main runs, <<status>> once the process has exited

vars == <<pc, ret, flags, config, originRemote, upstreamRemote, owner,
          repoName, repoInfo, gitCalls, apiCalls, output, exitStatus>>

----------------------------------------------------------------------------
(* String literals of main.go *)

\* GetOriginRepo (85): "git@github.com:"
S_sshPrefix == <<"g","i","t","@","g","i","t","h","u","b",".","c","o","m",":">>
\* GetOriginRepo (89): "github.com/"
S_hostSlash == <<"g","i","t","h","u","b",".","c","o","m","/">>
\* GetOriginRepo (88): "/"
S_slash == <<"/">>
\* GetOriginRepo (102): ".git"
S_dotGit == <<".","g","i","t">>
\* main (222): "remote"
S_remote == <<"r","e","m","o","t","e">>
\* main (222): "add"
S_add == <<"a","d","d">>
\* GetOriginRepo (75): "get-url"
S_getUrl == <<"g","e","t","-","u","r","l">>
\* main (222): "upstream"
S_upstream == <<"u","p","s","t","r","e","a","m">>
\* main (234): "fetch"
S_fetch == <<"f","e","t","c","h">>
\* getSyncCommand (145): "merge"
S_merge == <<"m","e","r","g","e">>
\* getSyncCommand (136): "rebase"
S_rebase == <<"r","e","b","a","s","e">>
\* main (261): "push"
S_push == <<"p","u","s","h">>
\* main (263): "-f"
S_dashF == <<"-","f">>
\* main (265): "origin"
S_origin == <<"o","r","i","g","i","n">>
\* main (265): "HEAD:"
S_headColon == <<"H","E","A","D",":">>
\* parseFlags (42): "main"
S_main == <<"m","a","i","n">>
\* main (223): "adding upstream remote"
S_descAdd == <<"a","d","d","i","n","g"," ","u","p","s","t","r","e","a","m"," ","r","e","m","o","t","e">>
\* main (235): "fetching upstream"
S_descFetch == <<"f","e","t","c","h","i","n","g"," ","u","p","s","t","r","e","a","m">>
\* getSyncCommand (142): "rebasing onto upstream"
S_descRebase == <<"r","e","b","a","s","i","n","g"," ","o","n","t","o"," ","u","p","s","t","r","e","a","m">>
\* getSyncCommand (151): "merging upstream"
S_descMerge == <<"m","e","r","g","i","n","g"," ","u","p","s","t","r","e","a","m">>
\* main (269): "pushing to origin/"
S_descPush == <<"p","u","s","h","i","n","g"," ","t","o"," ","o","r","i","g","i","n","/">>
\* main (226): "remote upstream already exists"
S_alreadyExists == <<"r","e","m","o","t","e"," ","u","p","s","t","r","e","a","m"," ","a","l","r","e","a","d","y"," ","e","x","i","s","t","s">>
\* runGitCommand (128): ": "
S_colonSp == <<":"," ">>
\* runGitCommand (128): "\nOutput: "
S_nlOutput == <<"\n","O","u","t","p","u","t",":"," ">>
\* GetOriginRepo (78): "failed to get origin remote: "
S_errOrigin == <<"f","a","i","l","e","d"," ","t","o"," ","g","e","t"," ","o","r","i","g","i","n"," ","r","e","m","o","t","e",":"," ">>
\* GetOriginRepo (94): "unsupported origin URL format: "
S_errUnsupported == <<"u","n","s","u","p","p","o","r","t","e","d"," ","o","r","i","g","i","n"," ","U","R","L"," ","f","o","r","m","a","t",":"," ">>
\* GetOriginRepo (98): "failed to parse owner/repo from URL: "
S_errMalformed == <<"f","a","i","l","e","d"," ","t","o"," ","p","a","r","s","e"," ","o","w","n","e","r","/","r","e","p","o"," ","f","r","o","m"," ","U","R","L",":"," ">>
\* getRepoInfo (111): "failed to get repo info: "
S_errRepoInfo == <<"f","a","i","l","e","d"," ","t","o"," ","g","e","t"," ","r","e","p","o"," ","i","n","f","o",":"," ">>
\* getRepoInfo (109): "repos/"
S_repos == <<"r","e","p","o","s","/">>
\* validateFork (119): "repository "
S_repository == <<"r","e","p","o","s","i","t","o","r","y"," ">>
\* validateFork (119): " isn't a fork"
S_isntFork == <<" ","i","s","n","'","t"," ","a"," ","f","o","r","k">>
\* main (181): "https://github.com/upstream/repo.git"
S_placeholderURL == <<"h","t","t","p","s",":","/","/","g","i","t","h","u","b",".","c","o","m","/","u","p","s","t","r","e","a","m","/","r","e","p","o",".","g","i","t">>
\* printDryRun (157): "Note: The following commands are examples. The actual upstream URL will be taken from your fork's parent repository."
S_dryNote == <<"N","o","t","e",":"," ","T","h","e"," ","f","o","l","l","o","w","i","n","g"," ","c","o","m","m","a","n","d","s"," ","a","r","e"," ","e","x","a","m","p","l","e","s","."," ","T","h","e"," ","a","c","t","u","a","l"," ","u","p","s","t","r","e","a","m"," ","U","R","L"," ","w","i","l","l"," ","b","e"," ","t","a","k","e","n"," ","f","r","o","m"," ","y","o","u","r"," ","f","o","r","k","'","s"," ","p","a","r","e","n","t"," ","r","e","p","o","s","i","t","o","r","y",".">>
\* printDryRun (158): "Dry run mode - commands that would be executed:"
S_dryHeader == <<"D","r","y"," ","r","u","n"," ","m","o","d","e"," ","-"," ","c","o","m","m","a","n","d","s"," ","t","h","a","t"," ","w","o","u","l","d"," ","b","e"," ","e","x","e","c","u","t","e","d",":">>
\* printDryRun (159): "Would run: git remote add upstream "
S_wouldRemoteAdd == <<"W","o","u","l","d"," ","r","u","n",":"," ","g","i","t"," ","r","e","m","o","t","e"," ","a","d","d"," ","u","p","s","t","r","e","a","m"," ">>
\* printDryRun (160): "Would run: git fetch upstream"
S_wouldFetch == <<"W","o","u","l","d"," ","r","u","n",":"," ","g","i","t"," ","f","e","t","c","h"," ","u","p","s","t","r","e","a","m">>
\* printDryRun (163): "Would run: git rebase upstream/"
S_wouldRebase == <<"W","o","u","l","d"," ","r","u","n",":"," ","g","i","t"," ","r","e","b","a","s","e"," ","u","p","s","t","r","e","a","m","/">>
\* printDryRun (165): "Would run: git merge upstream/"
S_wouldMerge == <<"W","o","u","l","d"," ","r","u","n",":"," ","g","i","t"," ","m","e","r","g","e"," ","u","p","s","t","r","e","a","m","/">>
\* printDryRun (172): "Would run: git "
S_wouldRunGit == <<"W","o","u","l","d"," ","r","u","n",":"," ","g","i","t"," ">>
\* printDryRun (170): " -f"
S_spDashF == <<" ","-","f">>
\* printDryRun (172): " origin HEAD:"
S_spOriginHead == <<" ","o","r","i","g","i","n"," ","H","E","A","D",":">>
\* main (188): "\u2717 Error: "
S_crossError == <<"CROSS"," ","E","r","r","o","r",":"," ">>
\* main (207): "\u2717 "
S_cross == <<"CROSS"," ">>
\* main (216): "\u2717 Error while looking for git: "
S_crossLookPath == <<"CROSS"," ","E","r","r","o","r"," ","w","h","i","l","e"," ","l","o","o","k","i","n","g"," ","f","o","r"," ","g","i","t",":"," ">>
\* main (227): "\u2717 Error while "
S_crossWhile == <<"CROSS"," ","E","r","r","o","r"," ","w","h","i","l","e"," ">>
\* main (211): "\u2713 Detected fork: "
S_detected == <<"CHECK"," ","D","e","t","e","c","t","e","d"," ","f","o","r","k",":"," ">>
\* main (211): " (parent: "
S_parentOpen == <<" ","(","p","a","r","e","n","t",":"," ">>
\* main (211): ")"
S_parenClose == <<")">>
\* main (241): "\u2713 Fetched upstream"
S_fetched == <<"CHECK"," ","F","e","t","c","h","e","d"," ","u","p","s","t","r","e","a","m">>
\* main (248): "To abort the rebase, run: git rebase --abort"
S_hintRebase == <<"T","o"," ","a","b","o","r","t"," ","t","h","e"," ","r","e","b","a","s","e",","," ","r","u","n",":"," ","g","i","t"," ","r","e","b","a","s","e"," ","-","-","a","b","o","r","t">>
\* main (250): "To abort the merge, run: git merge --abort"
S_hintMerge == <<"T","o"," ","a","b","o","r","t"," ","t","h","e"," ","m","e","r","g","e",","," ","r","u","n",":"," ","g","i","t"," ","m","e","r","g","e"," ","-","-","a","b","o","r","t">>
\* main (255): "\u2713 Rebased onto upstream/"
S_rebased == <<"CHECK"," ","R","e","b","a","s","e","d"," ","o","n","t","o"," ","u","p","s","t","r","e","a","m","/">>
\* main (257): "\u2713 Merged upstream/"
S_merged == <<"CHECK"," ","M","e","r","g","e","d"," ","u","p","s","t","r","e","a","m","/">>
\* main (275): "\u2713 Pushed to origin/"
S_pushed == <<"CHECK"," ","P","u","s","h","e","d"," ","t","o"," ","o","r","i","g","i","n","/">>

----------------------------------------------------------------------------
(* Text produced by the collaborators (git, the GitHub API, the OS) *)

\* exec's error for a non-zero exit
S_exitStatus == <<"e","x","i","t"," ","s","t","a","t","u","s"," ","1">>
\* git remote add, when the remote is already configured
S_gitAlreadyExists == <<"e","r","r","o","r",":"," ","r","e","m","o","t","e"," ","u","p","s","t","r","e","a","m"," ","a","l","r","e","a","d","y"," ","e","x","i","s","t","s",".","\n">>
\* git remote add, any other failure
S_gitConfigLocked == <<"e","r","r","o","r",":"," ","c","o","u","l","d"," ","n","o","t"," ","l","o","c","k"," ","c","o","n","f","i","g"," ","f","i","l","e"," ",".","g","i","t","/","c","o","n","f","i","g","\n">>
\* git fetch failure
S_gitFetchFailed == <<"f","a","t","a","l",":"," ","u","n","a","b","l","e"," ","t","o"," ","a","c","c","e","s","s"," ","u","p","s","t","r","e","a","m","\n">>
\* git merge failure
S_gitMergeFailed == <<"A","u","t","o","m","a","t","i","c"," ","m","e","r","g","e"," ","f","a","i","l","e","d",";"," ","f","i","x"," ","c","o","n","f","l","i","c","t","s"," ","a","n","d"," ","t","h","e","n"," ","c","o","m","m","i","t"," ","t","h","e"," ","r","e","s","u","l","t",".","\n">>
\* git rebase failure
S_gitRebaseFailed == <<"e","r","r","o","r",":"," ","c","o","u","l","d"," ","n","o","t"," ","a","p","p","l","y","."," ","T","o"," ","a","b","o","r","t",","," ","r","u","n"," ","\"","g","i","t"," ","r","e","b","a","s","e"," ","-","-","a","b","o","r","t","\"",".","\n">>
\* git push failure
S_gitPushFailed == <<"!"," ","[","r","e","j","e","c","t","e","d","]"," ","H","E","A","D"," ","(","f","e","t","c","h"," ","f","i","r","s","t",")","\n">>
\* git remote get-url origin, when there is no such remote
S_gitNoSuchRemote == <<"e","r","r","o","r",":"," ","N","o"," ","s","u","c","h"," ","r","e","m","o","t","e"," ","'","o","r","i","g","i","n","'","\n">>
\* api client errors
S_apiNoAuth == <<"a","u","t","h","e","n","t","i","c","a","t","i","o","n"," ","t","o","k","e","n"," ","n","o","t"," ","f","o","u","n","d"," ","f","o","r"," ","h","o","s","t"," ","g","i","t","h","u","b",".","c","o","m">>
S_apiNotFound == <<"H","T","T","P"," ","4","0","4",":"," ","N","o","t"," ","F","o","u","n","d">>
\* safeexec.LookPath failure
S_lookPathFailed == <<"e","x","e","c","u","t","a","b","l","e"," ","f","i","l","e"," ","n","o","t"," ","f","o","u","n","d"," ","i","n"," ","$","P","A","T","H">>
\* URL prefixes of the origin remote
S_https == <<"h","t","t","p","s",":","/","/">>
S_ftpPrefix == <<"f","t","p",":","/","/","e","x","a","m","p","l","e",".","c","o","m","/">>
\* repository metadata
S_userRepo == <<"u","s","e","r","/","r","e","p","o">>
S_otherRepo == <<"o","r","g","/","t","o","o","l">>
S_parentName == <<"u","p","/","s","t","r","e","a","m">>
S_parentURL == <<"h","t","t","p","s",":","/","/","g","i","t","h","u","b",".","c","o","m","/","u","p","/","s","t","r","e","a","m",".","g","i","t">>
S_otherParentName == <<"b","a","s","e","/","t","o","o","l">>
S_otherParentURL == <<"h","t","t","p","s",":","/","/","g","i","t","h","u","b",".","c","o","m","/","b","a","s","e","/","t","o","o","l",".","g","i","t">>
S_strangerURL == <<"h","t","t","p","s",":","/","/","g","i","t","h","u","b",".","c","o","m","/","e","l","s","e","/","w","h","e","r","e",".","g","i","t">>
S_develop == <<"d","e","v","e","l","o","p">>
S_feature == <<"f","e","a","t","u","r","e">>
S_newline == <<"\n">>
S_space == <<" ">>

----------------------------------------------------------------------------
(* Bounds of the model *)

\* longest owner/repo path of an origin URL, in characters
MaxPathLen == 3

----------------------------------------------------------------------------
(* Go's strings package and fmt, on sequences of characters *)

\* a nil error, a nil pointer, a remote that is not configured
Nil == <<>>

HasPrefix(s, prefix) ==
    Len(s) >= Len(prefix) /\ SubSeq(s, 1, Len(prefix)) = prefix

HasSuffix(s, suffix) ==
    Len(s) >= Len(suffix) /\ SubSeq(s, Len(s) - Len(suffix) + 1, Len(s)) = suffix

TrimPrefix(s, prefix) ==
    IF HasPrefix(s, prefix) THEN SubSeq(s, Len(prefix) + 1, Len(s)) ELSE s

TrimSuffix(s, suffix) ==
    IF HasSuffix(s, suffix) THEN SubSeq(s, 1, Len(s) - Len(suffix)) ELSE s

\* strings.Index, counted from 1; 0 when sub does not occur in s
Index(s, sub) ==
    LET hits == {i \in 1..(Len(s) - Len(sub) + 1) : SubSeq(s, i, i + Len(sub) - 1) = sub}
    IN  IF hits = {} THEN 0 ELSE CHOOSE i \in hits : \A j \in hits : i <= j

Contains(s, sub) == Index(s, sub) # 0

\* strings.SplitN(s, sep, 2)
SplitN2(s, sep) ==
    LET i == Index(s, sep)
    IN  IF i = 0 THEN <<s>>
        ELSE <<SubSeq(s, 1, i - 1), SubSeq(s, i + Len(sep), Len(s))>>

IsSpace(c) == c \in {" ", "\n", "\t", "\r"}

TrimSpace(s) ==
    LET keep == {i \in 1..Len(s) : ~IsSpace(s[i])}
    IN  IF keep = {} THEN <<>>
        ELSE SubSeq(s, CHOOSE i \in keep : \A j \in keep : i <= j,
                       CHOOSE i \in keep : \A j \in keep : i >= j)

\* the command line exec.Command(gitBin, args...) runs, after "git "
RECURSIVE Join(_, _)
Join(args, sep) ==
    IF Len(args) = 0 THEN <<>>
    ELSE IF Len(args) = 1 THEN args[1]
    ELSE args[1] \o sep \o Join(Tail(args), sep)

----------------------------------------------------------------------------
(* parseFlags *)

\* a string flag is <<>> when absent and <<value>> when given
FlagSets ==
    [upstreamBranch : {<<>>, <<Nil>>, <<S_develop>>},
     originBranch   : {<<>>, <<S_feature>>},
     rebase         : BOOLEAN,
     force          : BOOLEAN,
     dryRun         : BOOLEAN]

parseFlags(f) ==
    [UpstreamBranch |-> IF f.upstreamBranch = <<>> THEN S_main ELSE f.upstreamBranch[1],
     OriginBranch   |-> IF f.originBranch = <<>> THEN S_main ELSE f.originBranch[1],
     Rebase         |-> f.rebase,
     ForcePush      |-> f.force,
     DryRun         |-> f.dryRun]

Configs == {parseFlags(f) : f \in FlagSets}

----------------------------------------------------------------------------
(* GetOriginRepo *)

Paths == UNION {[1..n -> {"o", "/"}] : n \in 0..MaxPathLen}

\* the URLs the remote "origin" may be configured with
OriginURLs ==
    {p \o b \o s : p \in {S_sshPrefix, S_https \o S_hostSlash, S_ftpPrefix},
                   b \in Paths, s \in {<<>>, S_dotGit}}

\* line 102: the repository name, without a .git suffix
RepoOf_KeepSuffix(part) == part

RepoOf(part) == TrimSuffix(part, S_dotGit)

\* lines 81-103, with every URL that is not SSH-style split as a path
ParseOriginURL_AnyHost(out) ==
    LET url == TrimSpace(out)
        Split(parts) ==
            IF Len(parts) < 2
            THEN [owner |-> <<>>, repo |-> <<>>, err |-> S_errMalformed \o url]
            ELSE [owner |-> parts[1], repo |-> RepoOf(parts[2]), err |-> Nil]
    IN  IF HasPrefix(url, S_sshPrefix)
        THEN Split(SplitN2(TrimPrefix(url, S_sshPrefix), S_slash))
        ELSE IF Contains(url, S_hostSlash)
        THEN Split(SplitN2(SplitN2(url, S_hostSlash)[2], S_slash))
        ELSE Split(SplitN2(url, S_slash))

\* lines 81-103: from the output of git remote get-url origin to (owner, repo, err)
ParseOriginURL(out) ==
    LET url == TrimSpace(out)
        Split(parts) ==
            IF Len(parts) < 2
            THEN [owner |-> <<>>, repo |-> <<>>, err |-> S_errMalformed \o url]
            ELSE [owner |-> parts[1], repo |-> RepoOf(parts[2]), err |-> Nil]
    IN  IF HasPrefix(url, S_sshPrefix)
        THEN Split(SplitN2(TrimPrefix(url, S_sshPrefix), S_slash))
        ELSE IF Contains(url, S_hostSlash)
        THEN Split(SplitN2(SplitN2(url, S_hostSlash)[2], S_slash))
        ELSE [owner |-> <<>>, repo |-> <<>>, err |-> S_errUnsupported \o url]

\* what git remote get-url origin does in a repository whose origin is `remote`
GitGetURL(remote) ==
    IF remote = Nil THEN [ok |-> FALSE, out |-> S_gitNoSuchRemote]
    ELSE [ok |-> TRUE, out |-> remote \o S_newline]

GetOriginRepo(remote) ==
    LET r == GitGetURL(remote)
    IN  IF ~r.ok
        THEN [owner |-> <<>>, repo |-> <<>>, err |-> S_errOrigin \o S_exitStatus]
        ELSE ParseOriginURL(r.out)

----------------------------------------------------------------------------
(* getRepoInfo, validateFork *)

NoParent == [FullName |-> <<>>, CloneURL |-> <<>>]

\* the repositories on GitHub: two forks, each of its own parent, and the
\* same two names as repositories that are no forks
RepoInfos ==
    { [FullName |-> S_userRepo, Fork |-> TRUE,
       Parent |-> [FullName |-> S_parentName, CloneURL |-> S_parentURL]],
      [FullName |-> S_otherRepo, Fork |-> TRUE,
       Parent |-> [FullName |-> S_otherParentName, CloneURL |-> S_otherParentURL]],
      [FullName |-> S_userRepo, Fork |-> FALSE, Parent |-> NoParent],
      [FullName |-> S_otherRepo, Fork |-> FALSE, Parent |-> NoParent] }

\* the default branch of a parent repository on GitHub
DefaultBranchOf(parentFullName) ==
    IF parentFullName = S_parentName THEN S_main ELSE S_develop

\* the request path of client.Get
RepoPath(o, r) == S_repos \o o \o S_slash \o r

\* resp is <<>> when the request failed and <<info>> when it succeeded
getRepoInfo(resp) ==
    IF resp = <<>>
    THEN [info |-> Nil, err |-> S_errRepoInfo \o S_apiNotFound]
    ELSE [info |-> resp, err |-> Nil]

validateFork_AlwaysOk(info) == Nil

validateFork(info) ==
    IF ~info.Fork THEN S_repository \o info.FullName \o S_isntFork ELSE Nil

----------------------------------------------------------------------------
(* runGitCommand, getSyncCommand, printDryRun *)

\* res is the outcome of the process: [ok, out]
runGitCommand(cmd, res) ==
    IF ~res.ok
    THEN cmd.Description \o S_colonSp \o S_exitStatus \o S_nlOutput \o res.out
    ELSE Nil

getSyncCommand_AlwaysBranch(cfg, upstreamBranch) ==
    IF cfg.Rebase
    THEN [Args |-> <<S_rebase, S_upstream, S_upstream \o S_slash \o upstreamBranch>>,
          Description |-> S_descRebase]
    ELSE [Args |-> <<S_merge, S_upstream, S_upstream \o S_slash \o upstreamBranch>>,
          Description |-> S_descMerge]

getSyncCommand(cfg, upstreamBranch) ==
    IF cfg.Rebase
    THEN [Args |-> IF upstreamBranch # <<>>
                   THEN <<S_rebase, S_upstream, S_upstream \o S_slash \o upstreamBranch>>
                   ELSE <<S_rebase, S_upstream>>,
          Description |-> S_descRebase]
    ELSE [Args |-> IF upstreamBranch # <<>>
                   THEN <<S_merge, S_upstream, S_upstream \o S_slash \o upstreamBranch>>
                   ELSE <<S_merge, S_upstream>>,
          Description |-> S_descMerge]

\* the text of each print call, without its final newline
printDryRun(cfg, parentCloneURL) ==
    << S_dryNote,
       S_dryHeader,
       S_wouldRemoteAdd \o parentCloneURL,
       S_wouldFetch,
       IF cfg.Rebase THEN S_wouldRebase \o cfg.UpstreamBranch
                     ELSE S_wouldMerge \o cfg.UpstreamBranch,
       S_wouldRunGit \o (IF cfg.ForcePush THEN S_push \o S_spDashF ELSE S_push)
                     \o S_spOriginHead \o cfg.OriginBranch >>

AddUpstreamCommand(info) ==
    [Args |-> <<S_remote, S_add, S_upstream, info.Parent.CloneURL>>,
     Description |-> S_descAdd]

FetchCommand ==
    [Args |-> <<S_fetch, S_upstream>>, Description |-> S_descFetch]

\* PushCommand with -f passed unconditionally
PushCommand_AlwaysForce(cfg) ==
    [Args |-> <<S_push, S_dashF, S_origin, S_headColon \o cfg.OriginBranch>>,
     Description |-> S_descPush \o cfg.OriginBranch]

PushCommand(cfg) ==
    [Args |-> (IF cfg.ForcePush THEN <<S_push, S_dashF>> ELSE <<S_push>>)
              \o <<S_origin, S_headColon \o cfg.OriginBranch>>,
     Description |-> S_descPush \o cfg.OriginBranch]

----------------------------------------------------------------------------
(* What the git processes may do *)

Ok == [ok |-> TRUE, out |-> <<>>]
Failed(text) == [ok |-> FALSE, out |-> text]

\* git remote add upstream <url>, in a repository whose upstream is `remote`
GitRemoteAddResults(remote) ==
    IF remote # Nil
    THEN {Failed(S_gitAlreadyExists), Failed(S_gitConfigLocked)}
    ELSE {Ok, Failed(S_gitConfigLocked)}

GitFetchResults == {Ok, Failed(S_gitFetchFailed)}

GitSyncResults(cmd) ==
    {Ok, Failed(IF cmd.Args[1] = S_rebase THEN S_gitRebaseFailed ELSE S_gitMergeFailed)}

GitPushResults == {Ok, Failed(S_gitPushFailed)}

----------------------------------------------------------------------------
(* main *)

Init ==
    /\ flags \in FlagSets
    /\ config = parseFlags(flags)
    /\ originRemote \in {Nil} \cup OriginURLs
    /\ upstreamRemote \in {Nil, S_parentURL, S_strangerURL}
    /\ pc = "checkDryRun"
    /\ ret = "none"
    /\ owner = <<>>
    /\ repoName = <<>>
    /\ repoInfo = Nil
    /\ gitCalls = <<>>
    /\ apiCalls = <<>>
    /\ output = <<>>
    /\ exitStatus = <<>>

\* the exit status of a Go process whose main returned
StatusMainReturned == 0

\* Exit with os.Exit(1) on the failure paths
Exit_FailureStatus(text, at) ==
    /\ output' = output \o text
    /\ pc' = "exit"
    /\ ret' = at
    /\ exitStatus' = <<IF at \in {"dryRun", "end"} THEN StatusMainReturned ELSE 1>>

\* print the text and return from main
Exit(text, at) ==
    /\ output' = output \o text
    /\ pc' = "exit"
    /\ ret' = at
    /\ exitStatus' = <<StatusMainReturned>>

\* lines 178-183, with the dry-run test left out
CheckDryRun_Skipped ==
    /\ pc = "checkDryRun"
    /\ pc' = "newClient"
    /\ UNCHANGED <<output, ret, exitStatus, flags, config, originRemote, upstreamRemote, owner,
                   repoName, repoInfo, gitCalls, apiCalls>>

\* lines 178-183
CheckDryRun ==
    /\ pc = "checkDryRun"
    /\ IF config.DryRun
       THEN Exit(printDryRun(config, S_placeholderURL), "dryRun")
       ELSE pc' = "newClient" /\ UNCHANGED <<output, ret, exitStatus>>
    /\ UNCHANGED <<flags, config, originRemote, upstreamRemote, owner, repoName,
                   repoInfo, gitCalls, apiCalls>>

\* lines 185-190
NewClient ==
    /\ pc = "newClient"
    /\ \E ok \in BOOLEAN :
         IF ok
         THEN pc' = "getOrigin" /\ UNCHANGED <<output, ret, exitStatus>>
         ELSE Exit(<<S_crossError \o S_apiNoAuth>>, "clientErr")
    /\ UNCHANGED <<flags, config, originRemote, upstreamRemote, owner, repoName,
                   repoInfo, gitCalls, apiCalls>>

\* lines 192-197
ResolveOrigin ==
    /\ pc = "getOrigin"
    /\ LET r == GetOriginRepo(originRemote)
       IN  /\ gitCalls' = Append(gitCalls,
                  [args |-> <<S_remote, S_getUrl, S_origin>>,
                   err  |-> IF GitGetURL(originRemote).ok THEN Nil ELSE S_exitStatus])
           /\ IF r.err # Nil
              THEN /\ Exit(<<S_crossError \o r.err>>, "originErr")
                   /\ UNCHANGED <<owner, repoName>>
              ELSE /\ owner' = r.owner
                   /\ repoName' = r.repo
                   /\ pc' = "getRepoInfo"
                   /\ UNCHANGED <<output, ret, exitStatus>>
    /\ UNCHANGED <<flags, config, originRemote, upstreamRemote, repoInfo, apiCalls>>

\* lines 199-204
FetchRepoInfo ==
    /\ pc = "getRepoInfo"
    /\ \E resp \in {<<>>} \cup {<<i>> : i \in RepoInfos} :
         LET r == getRepoInfo(resp)
         IN  /\ apiCalls' = Append(apiCalls, RepoPath(owner, repoName))
             /\ IF r.err # Nil
                THEN /\ Exit(<<S_crossError \o r.err>>, "repoInfoErr")
                     /\ UNCHANGED repoInfo
                ELSE /\ repoInfo' = r.info
                     /\ pc' = "validateFork"
                     /\ UNCHANGED <<output, ret, exitStatus>>
    /\ UNCHANGED <<flags, config, originRemote, upstreamRemote, owner, repoName, gitCalls>>

\* lines 206-211
ValidateFork ==
    /\ pc = "validateFork"
    /\ LET e == validateFork(repoInfo[1])
       IN  IF e # Nil
           THEN Exit(<<S_cross \o e>>, "notFork")
           ELSE /\ output' = Append(output,
                       S_detected \o repoInfo[1].FullName \o S_parentOpen
                       \o repoInfo[1].Parent.FullName \o S_parenClose)
                /\ pc' = "lookPath"
                /\ UNCHANGED <<ret, exitStatus>>
    /\ UNCHANGED <<flags, config, originRemote, upstreamRemote, owner, repoName,
                   repoInfo, gitCalls, apiCalls>>

\* lines 213-218
LookPath ==
    /\ pc = "lookPath"
    /\ \E ok \in BOOLEAN :
         IF ok
         THEN pc' = "addUpstream" /\ UNCHANGED <<output, ret, exitStatus>>
         ELSE Exit(<<S_crossLookPath \o S_lookPathFailed>>, "lookPathErr")
    /\ UNCHANGED <<flags, config, originRemote, upstreamRemote, owner, repoName,
                   repoInfo, gitCalls, apiCalls>>

\* line 226: the remote-add error that ends the run
RemoteAddFatal_NoSwallow(e) == e # Nil

RemoteAddFatal(e) == e # Nil /\ ~Contains(e, S_alreadyExists)

\* lines 220-230
AddUpstream ==
    /\ pc = "addUpstream"
    /\ \E res \in GitRemoteAddResults(upstreamRemote) :
         LET cmd == AddUpstreamCommand(repoInfo[1])
             e   == runGitCommand(cmd, res)
         IN  /\ gitCalls' = Append(gitCalls, [args |-> cmd.Args, err |-> e])
             /\ upstreamRemote' = IF res.ok THEN repoInfo[1].Parent.CloneURL
                                            ELSE upstreamRemote
             /\ IF RemoteAddFatal(e)
                THEN Exit(<<S_crossWhile \o e>>, "remoteAddErr")
                ELSE pc' = "fetchUpstream" /\ UNCHANGED <<output, ret, exitStatus>>
    /\ UNCHANGED <<flags, config, originRemote, owner, repoName, repoInfo, apiCalls>>

\* line 237: the fetch error that ends the run
FetchFatal_Ignored(e) == FALSE

FetchFatal(e) == e # Nil

\* lines 232-241
FetchUpstream ==
    /\ pc = "fetchUpstream"
    /\ \E res \in GitFetchResults :
         LET e == runGitCommand(FetchCommand, res)
         IN  /\ gitCalls' = Append(gitCalls, [args |-> FetchCommand.Args, err |-> e])
             /\ IF FetchFatal(e)
                THEN Exit(<<S_crossWhile \o e>>, "fetchErr")
                ELSE /\ output' = Append(output, S_fetched)
                     /\ pc' = "sync"
                     /\ UNCHANGED <<ret, exitStatus>>
    /\ UNCHANGED <<flags, config, originRemote, upstreamRemote, owner, repoName,
                   repoInfo, apiCalls>>

\* lines 247-251
AbortHint_Swapped(cfg) == IF cfg.Rebase THEN S_hintMerge ELSE S_hintRebase

AbortHint(cfg) == IF cfg.Rebase THEN S_hintRebase ELSE S_hintMerge

\* lines 254-258
SyncedLine(cfg) ==
    IF cfg.Rebase THEN S_rebased \o cfg.UpstreamBranch
                  ELSE S_merged \o cfg.UpstreamBranch

\* lines 243-258
Sync ==
    /\ pc = "sync"
    /\ LET cmd == getSyncCommand(config, config.UpstreamBranch)
       IN  \E res \in GitSyncResults(cmd) :
             LET e == runGitCommand(cmd, res)
             IN  /\ gitCalls' = Append(gitCalls, [args |-> cmd.Args, err |-> e])
                 /\ IF e # Nil
                    THEN Exit(<<S_crossWhile \o e, AbortHint(config)>>, "syncErr")
                    ELSE /\ output' = Append(output, SyncedLine(config))
                         /\ pc' = "push"
                         /\ UNCHANGED <<ret, exitStatus>>
    /\ UNCHANGED <<flags, config, originRemote, upstreamRemote, owner, repoName,
                   repoInfo, apiCalls>>

\* line 271: the push error that ends the run
PushFatal_Ignored(e) == FALSE

PushFatal(e) == e # Nil

\* lines 260-276, with a failed push tried again
Push_Retry ==
    /\ pc = "push"
    /\ LET cmd == PushCommand(config)
       IN  \E res \in GitPushResults :
             LET e == runGitCommand(cmd, res)
             IN  /\ gitCalls' = Append(gitCalls, [args |-> cmd.Args, err |-> e])
                 /\ IF e # Nil
                    THEN /\ output' = Append(output, S_crossWhile \o e)
                         /\ UNCHANGED <<pc, ret, exitStatus>>
                    ELSE Exit(<<S_pushed \o config.OriginBranch>>, "end")
    /\ UNCHANGED <<flags, config, originRemote, upstreamRemote, owner, repoName,
                   repoInfo, apiCalls>>

\* lines 260-276
Push ==
    /\ pc = "push"
    /\ LET cmd == PushCommand(config)
       IN  \E res \in GitPushResults :
             LET e == runGitCommand(cmd, res)
             IN  /\ gitCalls' = Append(gitCalls, [args |-> cmd.Args, err |-> e])
                 /\ IF PushFatal(e)
                    THEN Exit(<<S_crossWhile \o e>>, "pushErr")
                    ELSE Exit(<<S_pushed \o config.OriginBranch>>, "end")
    /\ UNCHANGED <<flags, config, originRemote, upstreamRemote, owner, repoName,
                   repoInfo, apiCalls>>

Next ==
    \/ CheckDryRun
    \/ NewClient
    \/ ResolveOrigin
    \/ FetchRepoInfo
    \/ ValidateFork
    \/ LookPath
    \/ AddUpstream
    \/ FetchUpstream
    \/ Sync
    \/ Push

Spec == Init /\ [][Next]_vars

----------------------------------------------------------------------------
(* Vocabulary of the properties *)

\* the commands main issued through runGitCommand (all but get-url)
Pipeline == SubSeq(gitCalls, 2, Len(gitCalls))

IsRemoteAdd(c) ==
    Len(c.args) = 4 /\ SubSeq(c.args, 1, 3) = <<S_remote, S_add, S_upstream>>

IsFetch(c) == c.args = <<S_fetch, S_upstream>>

IsIntegrate(c) == c.args[1] \in {S_merge, S_rebase}

IsPush(c) == c.args[1] = S_push

\* 1 remote-add, 2 fetch, 3 integrate, 4 push; 0 for anything else
StepKind(c) ==
    IF IsRemoteAdd(c) THEN 1
    ELSE IF IsFetch(c) THEN 2
    ELSE IF IsIntegrate(c) THEN 3
    ELSE IF IsPush(c) THEN 4
    ELSE 0

\* git reported that the remote upstream is already configured
SaidAlreadyExists(c) == c.err # Nil /\ HasSuffix(c.err, S_gitAlreadyExists)

Passed(c) == c.err = Nil \/ (IsRemoteAdd(c) /\ SaidAlreadyExists(c))

\* origin was resolved to an identity: GetOriginRepo returned no error
OriginParsed == pc \notin {"checkDryRun", "newClient", "getOrigin"}
                /\ ret \notin {"dryRun", "clientErr", "originErr"}

Printed(text) == \E i \in 1..Len(output) : Contains(output[i], text)

T_rebaseAbort == <<"g","i","t"," ","r","e","b","a","s","e"," ","-","-","a","b","o","r","t">>
T_mergeAbort == <<"g","i","t"," ","m","e","r","g","e"," ","-","-","a","b","o","r","t">>
T_abort == <<"-","-">>
T_upstreamMain == S_upstream \o S_slash \o S_main
T_headMain == S_headColon \o S_main

----------------------------------------------------------------------------
(* C1 *)

\* C1: the commands issued through the runner are, in order, remote-add,
\* fetch, integrate, push: the i-th issued command is of the i-th kind, and
\* every command but the last issued one passed (a remote-add that failed
\* with "already exists" counts as passed).
C1_CommandsInOrder ==
    /\ Len(Pipeline) <= 4
    /\ \A i \in 1..Len(Pipeline) : StepKind(Pipeline[i]) = i
    /\ \A i \in 1..(Len(Pipeline) - 1) : Passed(Pipeline[i])

\* all four commands were issued, the first one swallowed
C1_Witness ==
    /\ ret = "end"
    /\ Len(Pipeline) = 4
    /\ SaidAlreadyExists(Pipeline[1])

----------------------------------------------------------------------------
(* C2 *)

\* C2: with config.dryRun set, whatever the other fields, no git process is
\* started and no API request is sent, the run never fails, and when it has
\* returned it has printed the plan: two header lines and four
\* "Would run: git ..." lines.
C2_DryRunTouchesNothing ==
    config.DryRun =>
        /\ gitCalls = <<>>
        /\ apiCalls = <<>>
        /\ pc \in {"checkDryRun", "exit"}
        /\ pc = "exit" =>
              /\ ret = "dryRun"
              /\ Len(output) = 6
              /\ \A i \in 3..6 : HasPrefix(output[i], S_wouldRunGit)

C2_Witness ==
    /\ config.DryRun
    /\ config.Rebase
    /\ config.ForcePush
    /\ pc = "exit"

----------------------------------------------------------------------------
(* C3 *)

\* C3: when a real run has succeeded, the commands it issued are, argument
\* for argument, the ones the dry run of the same config prints; only the
\* URL of the remote-add line may differ.
C3_DryRunMatchesRealRun ==
    (ret = "end" /\ owner # <<>> /\ repoName # <<>>) =>
        LET plan == printDryRun([config EXCEPT !.DryRun = TRUE], S_placeholderURL)
            line(c) == S_wouldRunGit \o Join(c.args, S_space)
        IN  /\ Len(Pipeline) = 4
            /\ HasPrefix(plan[3], S_wouldRunGit
                                  \o Join(SubSeq(Pipeline[1].args, 1, 3), S_space) \o S_space)
            /\ \A i \in 2..4 : plan[i + 2] = line(Pipeline[i])

----------------------------------------------------------------------------
(* C4 *)

NoFlags ==
    [upstreamBranch |-> <<>>, originBranch |-> <<>>,
     rebase |-> FALSE, force |-> FALSE, dryRun |-> FALSE]

\* C4: a run without flags has the default config, and when it succeeds
\* the commands it issued through the runner are exactly remote add
\* upstream <parent clone URL>, fetch upstream, merge upstream/main,
\* push origin HEAD:main.
C4_DefaultRun ==
    flags = NoFlags =>
        /\ config = [UpstreamBranch |-> S_main, OriginBranch |-> S_main,
                     Rebase |-> FALSE, ForcePush |-> FALSE, DryRun |-> FALSE]
        /\ (ret = "end" /\ owner # <<>> /\ repoName # <<>>) =>
              [i \in 1..Len(Pipeline) |-> Pipeline[i].args] =
                  << <<S_remote, S_add, S_upstream, repoInfo[1].Parent.CloneURL>>,
                     <<S_fetch, S_upstream>>,
                     <<S_merge, T_upstreamMain>>,
                     <<S_push, S_origin, T_headMain>> >>

----------------------------------------------------------------------------
(* C5 *)

\* C5: when remote-add failed because the remote already exists, the run
\* is at the fetch step or has issued fetch; when it failed for any other
\* reason, the run has ended there and remote-add is the last git command.
C5_RemoteAddPolicy ==
    (Len(Pipeline) >= 1 /\ Pipeline[1].err # Nil) =>
        IF SaidAlreadyExists(Pipeline[1])
        THEN \/ pc = "fetchUpstream" /\ Len(Pipeline) = 1
             \/ Len(Pipeline) >= 2 /\ IsFetch(Pipeline[2])
        ELSE /\ pc = "exit"
             /\ ret = "remoteAddErr"
             /\ Len(Pipeline) = 1

C5_Witness ==
    /\ Len(Pipeline) >= 2
    /\ SaidAlreadyExists(Pipeline[1])
    /\ IsFetch(Pipeline[2])

----------------------------------------------------------------------------
(* C6 *)

\* C6: when the integration command failed, it is the last git command of
\* the run (no push, no abort command), the run has ended, and the output
\* names git rebase --abort exactly when config.rebase is set and
\* git merge --abort exactly when it is not.
C6_IntegrationFailure ==
    (Len(Pipeline) >= 3 /\ Pipeline[3].err # Nil) =>
        /\ Len(Pipeline) = 3
        /\ pc = "exit"
        /\ ret = "syncErr"
        /\ Printed(T_rebaseAbort) <=> config.Rebase
        /\ Printed(T_mergeAbort) <=> ~config.Rebase
        /\ \A i \in 1..Len(gitCalls) :
              \A j \in 1..Len(gitCalls[i].args) : gitCalls[i].args[j] # T_abort

C6_Witness ==
    /\ Len(Pipeline) = 3
    /\ Pipeline[3].err # Nil
    /\ ~config.Rebase
    /\ Printed(T_mergeAbort)

----------------------------------------------------------------------------
(* C7 *)

StateChanging(c) == IsRemoteAdd(c) \/ IsFetch(c) \/ IsIntegrate(c) \/ IsPush(c)

\* C7: once the metadata is validated, the run ended as "not a fork"
\* exactly when the metadata says fork = false, whatever its full name;
\* and when the metadata says fork = false or the lookup failed, no
\* remote-add, fetch, merge, rebase or push has been issued.
C7_NotAForkStops ==
    /\ (repoInfo # Nil /\ pc # "validateFork") =>
          (ret = "notFork" <=> ~repoInfo[1].Fork)
    /\ ((repoInfo # Nil /\ ~repoInfo[1].Fork) \/ ret = "repoInfoErr") =>
          \A i \in 1..Len(gitCalls) : ~StateChanging(gitCalls[i])

C7_Witness ==
    /\ ret = "notFork"
    /\ repoInfo[1].FullName = S_otherRepo
    /\ Len(gitCalls) = 1

----------------------------------------------------------------------------
(* C8 *)

----------------------------------------------------------------------------
(* C9 *)

\* C9: whenever the origin URL was parsed without error, the owner and the
\* repository name are both non-empty.
C9_IdentityNonEmpty ==
    OriginParsed => (owner # <<>> /\ repoName # <<>>)

----------------------------------------------------------------------------
(* C10 *)

\* C10: the identity parsed from the origin URL is also what the URL with
\* .git appended (when it has none), the URL with its .git removed (when it
\* has one), and the URL of the other shape (SSH for HTTPS, HTTPS for SSH)
\* with the same owner/repo path parse to.
C10_SameIdentity ==
    OriginParsed =>
        LET u == originRemote
            httpsPrefix == S_https \o S_hostSlash
            same(x) == GetOriginRepo(x) = [owner |-> owner, repo |-> repoName, err |-> Nil]
        IN  /\ ~HasSuffix(u, S_dotGit) => same(u \o S_dotGit)
            /\ HasSuffix(u, S_dotGit) => same(TrimSuffix(u, S_dotGit))
            /\ HasPrefix(u, S_sshPrefix) =>
                  same(httpsPrefix \o TrimPrefix(u, S_sshPrefix))
            /\ HasPrefix(u, httpsPrefix) =>
                  same(S_sshPrefix \o TrimPrefix(u, httpsPrefix))

C10_Witness ==
    /\ OriginParsed
    /\ HasPrefix(originRemote, S_sshPrefix)
    /\ HasSuffix(originRemote, S_dotGit)
    /\ owner = <<"o">>
    /\ repoName = <<"o">>

----------------------------------------------------------------------------
(* C11 *)

\* C11: the push command has the arguments [push, -f, origin,
\* HEAD:<originBranch>] when config.forcePush is set and [push, origin,
\* HEAD:<originBranch>] when it is not; every config with the same forcePush
\* and originBranch, whatever its upstreamBranch and rebase, gives the same
\* arguments.
C11_PushCommandShape ==
    Len(Pipeline) >= 4 =>
        LET ref == S_headColon \o config.OriginBranch
        IN  /\ Pipeline[4].args =
                  IF config.ForcePush THEN <<S_push, S_dashF, S_origin, ref>>
                  ELSE <<S_push, S_origin, ref>>
            /\ \A c \in Configs :
                  (c.ForcePush = config.ForcePush /\ c.OriginBranch = config.OriginBranch)
                      => PushCommand(c).Args = Pipeline[4].args

C11_Witness ==
    /\ Len(Pipeline) >= 4
    /\ ~config.ForcePush
    /\ config.Rebase
    /\ config.OriginBranch = S_feature
    /\ config.UpstreamBranch = S_develop
    /\ Pipeline[4].args = <<S_push, S_origin, S_headColon \o S_feature>>

----------------------------------------------------------------------------
(* C12 *)

\* C12: in a run without --upstream-branch, the integration command targets
\* upstream/<default branch of the fork's parent>.
C12_DefaultBranchOfParent ==
    (flags.upstreamBranch = <<>> /\ Len(Pipeline) >= 3) =>
        LET a == Pipeline[3].args
        IN  a[Len(a)] = S_upstream \o S_slash
                        \o DefaultBranchOf(repoInfo[1].Parent.FullName)

----------------------------------------------------------------------------
(* C13 *)

\* the URL is of neither supported shape
Unsupported(u) ==
    u # Nil /\ ~HasPrefix(u, S_sshPrefix) /\ ~Contains(u, S_hostSlash)

\* C13: once the origin URL has been read and it neither begins with
\* git@github.com: nor contains github.com/, the run has ended with the
\* unsupported-format error that carries the URL, no API request was sent
\* and none of remote-add, fetch, integrate, push was issued.
C13_UnsupportedURLStops ==
    (Unsupported(originRemote) /\ Len(gitCalls) >= 1) =>
        /\ pc = "exit"
        /\ ret = "originErr"
        /\ output = <<S_crossError \o S_errUnsupported \o originRemote>>
        /\ apiCalls = <<>>
        /\ Pipeline = <<>>

C13_Witness ==
    /\ ret = "originErr"
    /\ originRemote = S_ftpPrefix \o <<"o", "/", "o">>
    /\ Printed(S_errUnsupported \o originRemote)

----------------------------------------------------------------------------
(* C14 *)

\* C14: at most one API request is sent and at most one command of each of
\* the four kinds is issued; a git command that failed (other than the
\* swallowed remote-add) is the last one and the run has ended; after a
\* failed origin lookup no API request is sent, and after a failed API
\* lookup, client set-up or git look-up no further command is issued.
C14_NoRetry ==
    /\ Len(apiCalls) <= 1
    /\ \A k \in 1..4 :
          Cardinality({i \in 1..Len(Pipeline) : StepKind(Pipeline[i]) = k}) <= 1
    /\ Cardinality({i \in 1..Len(gitCalls) : gitCalls[i].args[2] = S_getUrl}) <= 1
    /\ \A i \in 1..Len(gitCalls) :
          ~Passed(gitCalls[i]) => (i = Len(gitCalls) /\ pc = "exit")
    /\ ret = "clientErr" => (gitCalls = <<>> /\ apiCalls = <<>>)
    /\ ret = "originErr" => (Len(gitCalls) = 1 /\ apiCalls = <<>>)
    /\ ret \in {"repoInfoErr", "notFork", "lookPathErr"} =>
          (Len(gitCalls) = 1 /\ Len(apiCalls) = 1)

C14_Witness ==
    /\ ret = "pushErr"
    /\ Len(Pipeline) = 4
    /\ Len(apiCalls) = 1
    /\ SaidAlreadyExists(Pipeline[1])

----------------------------------------------------------------------------
(* C15 *)

\* the step whose failure ended the run, as the calls made show it
FailedStepMatches ==
    /\ ret = "clientErr" => (gitCalls = <<>> /\ apiCalls = <<>>)
    /\ ret = "originErr" => (Len(gitCalls) = 1 /\ apiCalls = <<>>)
    /\ ret = "repoInfoErr" => (Pipeline = <<>> /\ Len(apiCalls) = 1 /\ repoInfo = Nil)
    /\ ret = "notFork" => (Pipeline = <<>> /\ ~repoInfo[1].Fork)
    /\ ret = "lookPathErr" => (Pipeline = <<>> /\ repoInfo[1].Fork)
    /\ ret = "remoteAddErr" => (Len(Pipeline) = 1 /\ ~Passed(Pipeline[1]))
    /\ ret = "fetchErr" => (Len(Pipeline) = 2 /\ ~Passed(Pipeline[2]))
    /\ ret = "syncErr" => (Len(Pipeline) = 3 /\ ~Passed(Pipeline[3]))
    /\ ret = "pushErr" => (Len(Pipeline) = 4 /\ ~Passed(Pipeline[4]))

AllFourPassed ==
    Len(Pipeline) = 4 /\ \A i \in 1..4 : Passed(Pipeline[i])

\* the state part of C15
OneTerminalOutcome ==
    /\ pc = "exit" <=> ret # "none"
    /\ pc = "exit" => ~ENABLED Next
    /\ ret = "dryRun" => (config.DryRun /\ Len(output) = 6)
    /\ ret = "end" => (~config.DryRun /\ AllFourPassed)
    /\ FailedStepMatches
    /\ Printed(S_pushed \o config.OriginBranch) <=> AllFourPassed
    /\ Printed(S_pushed) <=> ret = "end"

\* how far main has come
Rank(p) ==
    CASE p = "checkDryRun" -> 0
      [] p = "newClient" -> 1
      [] p = "getOrigin" -> 2
      [] p = "getRepoInfo" -> 3
      [] p = "validateFork" -> 4
      [] p = "lookPath" -> 5
      [] p = "addUpstream" -> 6
      [] p = "fetchUpstream" -> 7
      [] p = "sync" -> 8
      [] p = "push" -> 9
      [] p = "exit" -> 10

\* the statement main is at can run: what it reads is there, and the call
\* it makes has an outcome
Ready ==
    /\ pc \in {"checkDryRun", "newClient", "getOrigin", "getRepoInfo", "validateFork",
                "lookPath", "addUpstream", "fetchUpstream", "sync", "push", "exit"}
    /\ pc \in {"validateFork", "lookPath", "addUpstream", "fetchUpstream", "sync", "push"}
          => repoInfo # Nil
    /\ pc = "addUpstream" => GitRemoteAddResults(upstreamRemote) # {}
    /\ pc = "fetchUpstream" => upstreamRemote # Nil
    /\ pc = "exit" <=> exitStatus # <<>>

\* C15: every step of main moves it forward and, until it has exited, the
\* statement it is at can run, so with every external call returning the
\* run reaches the exit within ten steps; the exit is taken through exactly one
\* return, the success one (dry-run plan printed, or all four commands
\* passed) or the one of the first failing step; and "Pushed to
\* origin/<originBranch>" is printed exactly when remote-add (or its
\* swallow), fetch, integrate and push all passed.
C15_ReachesOneTerminal ==
    /\ [][Rank(pc') > Rank(pc)]_vars
    /\ []Ready
    /\ []OneTerminalOutcome

C15_Witness ==
    /\ ret = "end"
    /\ AllFourPassed
    /\ SaidAlreadyExists(Pipeline[1])
    /\ Printed(S_pushed \o config.OriginBranch)

----------------------------------------------------------------------------
(* C16 *)

FailureReturns ==
    {"clientErr", "originErr", "repoInfoErr", "notFork", "lookPathErr",
     "remoteAddErr", "fetchErr", "syncErr", "pushErr"}

\* C16: once the run has ended, through whichever return, the process has
\* exited with status 0, the status of a successful run; and a run that
\* ended in a failure has printed a line that begins with the cross mark.
C16_SameExitStatus ==
    pc = "exit" =>
        /\ exitStatus = <<0>>
        /\ ret \in FailureReturns \cup {"dryRun", "end"}
        /\ ret \in FailureReturns =>
              \E i \in 1..Len(output) : HasPrefix(output[i], S_cross)

C16_Witness ==
    /\ pc = "exit"
    /\ ret = "syncErr"
    /\ exitStatus = <<0>>
    /\ Printed(S_crossWhile \o S_descMerge)

----------------------------------------------------------------------------
(* C17 *)

\* C17: whenever fetch upstream has been issued, the remote upstream of the
\* local repository is the clone URL of the parent of the fork resolved in
\* this run.
C17_UpstreamIsParent ==
    (Len(Pipeline) >= 2 /\ IsFetch(Pipeline[2])) =>
        upstreamRemote = repoInfo[1].Parent.CloneURL

====
